---- MODULE Spec2Model ----
(***************************************************************************)
(* Model of figures/git_commit_plots.py: a straight-line script that       *)
(* builds three matplotlib figures, saves each one to a PNG file and then  *)
(* prints four console lines.                                              *)
(*                                                                         *)
(* Every top-level statement of the script is one step.  A figure is the   *)
(* ordered list of the artists added to it.  Coordinates and sizes are     *)
(* stored in tenths of a data unit (0.3 is 3, 1 is 10) so that the         *)
(* fractional literals of the source stay integers.                        *)
(*                                                                         *)
(* The model executes the script NumRuns times, one run after the other,   *)
(* each run in a fresh interpreter (its own module globals and pyplot      *)
(* state), and keeps what every run drew, wrote and printed.  A run may    *)
(* end early, at a savefig that fails.                                     *)
(***************************************************************************)
EXTENDS Integers, Sequences, FiniteSets, TLC

\* Number of times the script is executed.
NumRuns == 2

Runs == 1..NumRuns

VARIABLES
    pc,                  \* pc[r]: index in Script of the next statement of run r
    status,              \* status[r]: "running", "done" or "fault"
    branch_y_positions,  \* branch_y_positions[r]: the module-level dict (ordered pairs)
    commit_colors,       \* commit_colors[r]: the module-level dict (ordered pairs)
    figs,                \* figs[r]: the figures pyplot holds, in creation order
    axes,                \* axes[r]: script variable (ax1, ax2, ax3) -> figure number, 0 = unbound
    written,             \* written[r]: the files written so far, in order, with their content
    console              \* console[r]: the lines printed so far

vars == <<pc, status, branch_y_positions, commit_colors, figs, axes, written, console>>

----------------------------------------------------------------------------
(* Python dicts keep insertion order: a dict is a sequence of <<key, value>>. *)

BranchYPositionsInit == << <<"origin/main", 3>>, <<"local/main", 2>>, <<"testing", 1>> >>

CommitColorsInit ==
    << <<"A", "lightblue">>, <<"B", "lightgreen">>, <<"C", "lightsalmon">>,
       <<"D", "plum">>, <<"M", "gold">> >>

\* d[key]
Lookup(d, key) == d[CHOOSE i \in 1..Len(d) : d[i][1] = key][2]

----------------------------------------------------------------------------
(* Artists.                                                                *)

\* plt.Circle((x, y), radius, color=color, ec='black')
Circle(x, y, radius, color) ==
    [kind |-> "circle", x |-> x, y |-> y, r |-> radius, color |-> color, ec |-> "black"]

\* ax.text(x, y, s, ha=ha, va='center'[, fontweight='bold'])
Text(x, y, s, ha, weight) ==
    [kind |-> "text", x |-> x, y |-> y, s |-> s, ha |-> ha, va |-> "center",
     weight |-> weight]

\* ax.plot([x_start, x_end], [y, y], 'k-', linewidth=2)
Line(x_start, x_end, y) ==
    [kind |-> "line", x1 |-> x_start, x2 |-> x_end, y1 |-> y, y2 |-> y,
     fmt |-> "k-", linewidth |-> 20]

\* FancyArrowPatch((x_start, y_start), (x_end, y_end), arrowstyle='->', color='red',
\*                 linewidth=1.5, connectionstyle='arc3,rad=0.3')
FancyArrowPatch(x_start, y_start, x_end, y_end) ==
    [kind |-> "arrow", x1 |-> x_start, y1 |-> y_start, x2 |-> x_end, y2 |-> y_end,
     arrowstyle |-> "->", color |-> "red", linewidth |-> 15,
     connectionstyle |-> "arc3,rad=0.3"]

----------------------------------------------------------------------------
(* The drawing functions, as the list of artists each call appends.        *)

\* draw_commit(ax, x, y, label, color)
draw_commit(x, y, label, color) ==
    << Circle(10 * x, 10 * y, 3, color),
       Text(10 * x, 10 * y, label, "center", "bold") >>

\* draw_branch_line(ax, x_start, x_end, y)
draw_branch_line(x_start, x_end, y) ==
    << Line(10 * x_start, 10 * x_end, 10 * y) >>

\* draw_arrow(ax, x_start, y_start, x_end, y_end)
draw_arrow(x_start, y_start, x_end, y_end) ==
    << FancyArrowPatch(10 * x_start, 10 * y_start, 10 * x_end, 10 * y_end) >>

\* setup_plot: for branch, y in branch_y_positions.items(): ax.text(0.5, y, branch, ...)
BranchLabels(positions) ==
    [j \in 1..Len(positions) |->
        Text(5, 10 * positions[j][2], positions[j][1], "right", "bold")]

\* Mutant of LegendEntry: the loop index counted from 1 (enumerate(..., 1))
LegendEntryFromOne(i, commit, color) ==
    << Circle(10 * (i + 1) + 7, 3, 2, color),
       Text(10 * (i + 1) + 7, 3, commit, "center", "bold"),
       Text(10 * (i + 1) + 7, 0, "Commit " \o commit, "center", "normal") >>

\* setup_plot: one pass of the legend loop, i = enumerate index (from 0)
LegendEntry(i, commit, color) ==
    << Circle(10 * i + 7, 3, 2, color),
       Text(10 * i + 7, 3, commit, "center", "bold"),
       Text(10 * i + 7, 0, "Commit " \o commit, "center", "normal") >>

RECURSIVE LegendFrom(_, _)
\* setup_plot: for i, (commit, color) in enumerate(commit_colors.items())
LegendFrom(colors, j) ==
    IF j > Len(colors) THEN << >>
    ELSE LegendEntry(j - 1, colors[j][1], colors[j][2]) \o LegendFrom(colors, j + 1)

Legend(colors) == LegendFrom(colors, 1)

\* setup_plot(title): the figure it returns
setup_plot(title, positions, colors) ==
    [title    |-> title,
     fontsize |-> 14,
     figsize  |-> <<8, 4>>,
     xlim     |-> <<0, 60>>,
     ylim     |-> <<0, 40>>,
     axis     |-> "off",
     tight    |-> FALSE,
     artists  |-> BranchLabels(positions) \o Legend(colors)]

----------------------------------------------------------------------------
(* The script: its top-level statements in order.  A branch name stands    *)
(* for the expression branch_y_positions[name] and a colour key for        *)
(* commit_colors[key]; both are evaluated when the statement runs.         *)

StSetup(target, title)  == [op |-> "setup_plot", target |-> target, title |-> title]
StLine(ax, x1, x2, branch) ==
    [op |-> "draw_branch_line", ax |-> ax, x_start |-> x1, x_end |-> x2, branch |-> branch]
StCommit(ax, x, branch, label, key) ==
    [op |-> "draw_commit", ax |-> ax, x |-> x, branch |-> branch, label |-> label,
     key |-> key]
StArrow(ax, x1, b1, x2, b2) ==
    [op |-> "draw_arrow", ax |-> ax, x_start |-> x1, b_start |-> b1, x_end |-> x2,
     b_end |-> b2]
StTight == [op |-> "tight_layout"]
StSave(fname) == [op |-> "savefig", fname |-> fname, dpi |-> 300, bbox_inches |-> "tight"]
StEmit(line) == [op |-> "print", line |-> line]

\* Plot 1: Initial state -- branch lines
Plot1Lines ==
    << StLine("ax1", 1, 5, "origin/main"),
       StLine("ax1", 1, 2, "local/main"),
       StLine("ax1", 1, 3, "testing") >>

\* Mutant of Plot1Commits: the local/main commit placed at x = 3, beyond the
\* end of its branch line
Plot1CommitsOffLine ==
    << StCommit("ax1", 1, "origin/main", "A", "A"),
       StCommit("ax1", 2, "origin/main", "B", "B"),
       StCommit("ax1", 3, "origin/main", "C", "C"),
       StCommit("ax1", 3, "local/main", "A", "A"),
       StCommit("ax1", 1, "testing", "A", "A"),
       StCommit("ax1", 2, "testing", "D", "D") >>

\* Plot 1 -- commits
Plot1Commits ==
    << StCommit("ax1", 1, "origin/main", "A", "A"),
       StCommit("ax1", 2, "origin/main", "B", "B"),
       StCommit("ax1", 3, "origin/main", "C", "C"),
       StCommit("ax1", 1, "local/main", "A", "A"),
       StCommit("ax1", 1, "testing", "A", "A"),
       StCommit("ax1", 2, "testing", "D", "D") >>

\* Plot 1 -- tight_layout and savefig
Plot1Save == << StTight, StSave("git_workflow_step1.png") >>

Plot1 ==
    << StSetup("ax1", "Step 1: Initial State") >>
        \o Plot1Lines \o Plot1Commits \o Plot1Save

\* Mutant of Plot2Lines: the testing line drawn at the row of local/main
Plot2LinesWrongRow ==
    << StLine("ax2", 1, 5, "origin/main"),
       StLine("ax2", 1, 4, "local/main"),
       StLine("ax2", 1, 3, "local/main") >>

\* Plot 2: After git pull origin main -- branch lines
Plot2Lines ==
    << StLine("ax2", 1, 5, "origin/main"),
       StLine("ax2", 1, 4, "local/main"),
       StLine("ax2", 1, 3, "testing") >>

\* Mutant of Plot2Commits: commit C of local/main left out
Plot2CommitsMissing ==
    << StCommit("ax2", 1, "origin/main", "A", "A"),
       StCommit("ax2", 2, "origin/main", "B", "B"),
       StCommit("ax2", 3, "origin/main", "C", "C"),
       StCommit("ax2", 1, "local/main", "A", "A"),
       StCommit("ax2", 2, "local/main", "B", "B"),
       StCommit("ax2", 1, "testing", "A", "A"),
       StCommit("ax2", 2, "testing", "D", "D") >>

\* Mutant of Plot2Commits: the first call still draws on ax1 (copied from plot 1)
Plot2CommitsOnAx1 ==
    << StCommit("ax1", 1, "origin/main", "A", "A"),
       StCommit("ax2", 2, "origin/main", "B", "B"),
       StCommit("ax2", 3, "origin/main", "C", "C"),
       StCommit("ax2", 1, "local/main", "A", "A"),
       StCommit("ax2", 2, "local/main", "B", "B"),
       StCommit("ax2", 3, "local/main", "C", "C"),
       StCommit("ax2", 1, "testing", "A", "A"),
       StCommit("ax2", 2, "testing", "D", "D") >>

\* Plot 2 -- commits
Plot2Commits ==
    << StCommit("ax2", 1, "origin/main", "A", "A"),
       StCommit("ax2", 2, "origin/main", "B", "B"),
       StCommit("ax2", 3, "origin/main", "C", "C"),
       StCommit("ax2", 1, "local/main", "A", "A"),
       StCommit("ax2", 2, "local/main", "B", "B"),
       StCommit("ax2", 3, "local/main", "C", "C"),
       StCommit("ax2", 1, "testing", "A", "A"),
       StCommit("ax2", 2, "testing", "D", "D") >>

\* Plot 2 -- tight_layout and savefig
Plot2Save == << StTight, StSave("git_workflow_step2.png") >>

Plot2 ==
    << StSetup("ax2", "Step 2: After git pull origin main") >>
        \o Plot2Lines \o Plot2Commits \o Plot2Save

\* Plot 3: After git merge main -- branch lines
Plot3Lines ==
    << StLine("ax3", 1, 5, "origin/main"),
       StLine("ax3", 1, 4, "local/main"),
       StLine("ax3", 1, 5, "testing") >>

\* Mutant of Plot3Commits: the merge commit M filled with the colour of D
Plot3CommitsWrongColour ==
    << StCommit("ax3", 1, "origin/main", "A", "A"),
       StCommit("ax3", 2, "origin/main", "B", "B"),
       StCommit("ax3", 3, "origin/main", "C", "C"),
       StCommit("ax3", 1, "local/main", "A", "A"),
       StCommit("ax3", 2, "local/main", "B", "B"),
       StCommit("ax3", 3, "local/main", "C", "C"),
       StCommit("ax3", 1, "testing", "A", "A"),
       StCommit("ax3", 2, "testing", "D", "D"),
       StCommit("ax3", 4, "testing", "M", "D") >>

\* Plot 3 -- commits
Plot3Commits ==
    << StCommit("ax3", 1, "origin/main", "A", "A"),
       StCommit("ax3", 2, "origin/main", "B", "B"),
       StCommit("ax3", 3, "origin/main", "C", "C"),
       StCommit("ax3", 1, "local/main", "A", "A"),
       StCommit("ax3", 2, "local/main", "B", "B"),
       StCommit("ax3", 3, "local/main", "C", "C"),
       StCommit("ax3", 1, "testing", "A", "A"),
       StCommit("ax3", 2, "testing", "D", "D"),
       StCommit("ax3", 4, "testing", "M", "M") >>

\* Mutant of Plot3Arrows: the second arrow stops at x = 3, short of M
Plot3ArrowsWrongEnd ==
    << StArrow("ax3", 3, "local/main", 4, "testing"),
       StArrow("ax3", 2, "testing", 3, "testing") >>

\* Plot 3 -- merge arrows
Plot3Arrows ==
    << StArrow("ax3", 3, "local/main", 4, "testing"),
       StArrow("ax3", 2, "testing", 4, "testing") >>

\* Mutant of Plot3Save: the file name of plot 2 left in place
Plot3SaveWrongName == << StTight, StSave("git_workflow_step2.png") >>

\* Plot 3 -- tight_layout and savefig
Plot3Save == << StTight, StSave("git_workflow_step3.png") >>

Plot3 ==
    << StSetup("ax3", "Step 3: After git merge main") >>
        \o Plot3Lines \o Plot3Commits \o Plot3Arrows \o Plot3Save

\* The four print calls that end the script
Confirmation ==
    << StEmit("Created three separate visualization images:"),
       StEmit("1. git_workflow_step1.png - Initial state"),
       StEmit("2. git_workflow_step2.png - After git pull origin main"),
       StEmit("3. git_workflow_step3.png - After git merge main") >>

Script == Plot1 \o Plot2 \o Plot3 \o Confirmation

----------------------------------------------------------------------------
(* Interpreter.                                                            *)

AxNames == {"ax1", "ax2", "ax3"}

\* The statement run r is about to execute
Stmt(r) == Script[pc[r]]

\* Run r starts once the runs before it have ended
Started(r) == \A q \in 1..(r - 1) : status[q] # "running"

AtOp(r, op) ==
    /\ Started(r)
    /\ status[r] = "running"
    /\ pc[r] <= Len(Script)
    /\ Stmt(r).op = op

\* pyplot's current figure: the one created last (no figure is closed or selected)
Gcf(r) == Len(figs[r])

\* Move to the next statement; the run is over after the last one
Advance(r) ==
    /\ pc' = [pc EXCEPT ![r] = @ + 1]
    /\ status' = [status EXCEPT ![r] = IF pc[r] = Len(Script) THEN "done" ELSE @]

\* ax.add_patch / ax.text / ax.plot: append to the figure the axes belongs to
AddArtists(r, ax, new) ==
    figs' = [figs EXCEPT ![r][axes[r][ax]].artists = @ \o new]

Init ==
    /\ pc = [r \in Runs |-> 1]
    /\ status = [r \in Runs |-> "running"]
    /\ branch_y_positions = [r \in Runs |-> BranchYPositionsInit]
    /\ commit_colors = [r \in Runs |-> CommitColorsInit]
    /\ figs = [r \in Runs |-> << >>]
    /\ axes = [r \in Runs |-> [a \in AxNames |-> 0]]
    /\ written = [r \in Runs |-> << >>]
    /\ console = [r \in Runs |-> << >>]

\* figN, axN = setup_plot(title)
SetupPlot(r) ==
    /\ AtOp(r, "setup_plot")
    /\ figs' = [figs EXCEPT ![r] =
                   Append(@, setup_plot(Stmt(r).title, branch_y_positions[r],
                                        commit_colors[r]))]
    /\ axes' = [axes EXCEPT ![r][Stmt(r).target] = Len(figs[r]) + 1]
    /\ Advance(r)
    /\ UNCHANGED <<branch_y_positions, commit_colors, written, console>>

\* draw_branch_line(axN, x_start, x_end, branch_y_positions[branch])
DrawBranchLine(r) ==
    /\ AtOp(r, "draw_branch_line")
    /\ AddArtists(r, Stmt(r).ax,
                  draw_branch_line(Stmt(r).x_start, Stmt(r).x_end,
                                   Lookup(branch_y_positions[r], Stmt(r).branch)))
    /\ Advance(r)
    /\ UNCHANGED <<branch_y_positions, commit_colors, axes, written, console>>

\* draw_commit(axN, x, branch_y_positions[branch], label, commit_colors[key])
DrawCommit(r) ==
    /\ AtOp(r, "draw_commit")
    /\ AddArtists(r, Stmt(r).ax,
                  draw_commit(Stmt(r).x, Lookup(branch_y_positions[r], Stmt(r).branch),
                              Stmt(r).label, Lookup(commit_colors[r], Stmt(r).key)))
    /\ Advance(r)
    /\ UNCHANGED <<branch_y_positions, commit_colors, axes, written, console>>

\* draw_arrow(axN, x_start, branch_y_positions[b_start], x_end, branch_y_positions[b_end])
DrawArrow(r) ==
    /\ AtOp(r, "draw_arrow")
    /\ AddArtists(r, Stmt(r).ax,
                  draw_arrow(Stmt(r).x_start, Lookup(branch_y_positions[r], Stmt(r).b_start),
                             Stmt(r).x_end, Lookup(branch_y_positions[r], Stmt(r).b_end)))
    /\ Advance(r)
    /\ UNCHANGED <<branch_y_positions, commit_colors, axes, written, console>>

\* plt.tight_layout(): adjusts the layout of the current figure
TightLayout(r) ==
    /\ AtOp(r, "tight_layout")
    /\ figs' = [figs EXCEPT ![r][Gcf(r)].tight = TRUE]
    /\ Advance(r)
    /\ UNCHANGED <<branch_y_positions, commit_colors, axes, written, console>>

\* plt.savefig(fname, dpi=300, bbox_inches='tight'): renders the current figure
SaveFig(r) ==
    /\ AtOp(r, "savefig")
    /\ written' = [written EXCEPT ![r] =
                      Append(@, [name |-> Stmt(r).fname, dpi |-> Stmt(r).dpi,
                                 bbox_inches |-> Stmt(r).bbox_inches,
                                 canvas |-> Gcf(r), fig |-> figs[r][Gcf(r)]])]
    /\ Advance(r)
    /\ UNCHANGED <<branch_y_positions, commit_colors, figs, axes, console>>

\* Mutant of SaveFigFails: the exception is caught and the script goes on
SaveFigFailsSwallowed(r) ==
    /\ AtOp(r, "savefig")
    /\ Advance(r)
    /\ UNCHANGED <<branch_y_positions, commit_colors, figs, axes, written, console>>

\* plt.savefig raises (the file cannot be written): nothing catches the
\* exception, the interpreter stops at this statement.
SaveFigFails(r) ==
    /\ AtOp(r, "savefig")
    /\ status' = [status EXCEPT ![r] = "fault"]
    /\ UNCHANGED <<pc, branch_y_positions, commit_colors, figs, axes, written, console>>

\* print(line)
EmitLine(r) ==
    /\ AtOp(r, "print")
    /\ console' = [console EXCEPT ![r] = Append(@, Stmt(r).line)]
    /\ Advance(r)
    /\ UNCHANGED <<branch_y_positions, commit_colors, figs, axes, written>>

Next ==
    \E r \in Runs :
        \/ SetupPlot(r)
        \/ DrawBranchLine(r)
        \/ DrawCommit(r)
        \/ DrawArrow(r)
        \/ TightLayout(r)
        \/ SaveFig(r)
        \/ SaveFigFails(r)
        \/ EmitLine(r)

Spec == Init /\ [][Next]_vars

----------------------------------------------------------------------------
(* Reading a figure back: what a scene shows.                              *)

FileNames ==
    << "git_workflow_step1.png", "git_workflow_step2.png", "git_workflow_step3.png" >>

\* The names of the files run r has written, in order
WrittenNames(r) == [i \in 1..Len(written[r]) |-> written[r][i].name]

\* A run has written file k
HasWritten(r, k) == \E i \in 1..Len(written[r]) : written[r][i].name = FileNames[k]

\* Scene k as it was saved by run r
Saved(r, k) ==
    written[r][CHOOSE i \in 1..Len(written[r]) : written[r][i].name = FileNames[k]].fig

\* Commit markers: the radius-0.3 circles, each followed by its label text
MarkerIdx(fig) ==
    {i \in 1..Len(fig.artists) : fig.artists[i].kind = "circle" /\ fig.artists[i].r = 3}

MarkerLabel(fig, i) ==
    IF /\ i < Len(fig.artists)
       /\ fig.artists[i + 1].kind = "text"
       /\ fig.artists[i + 1].x = fig.artists[i].x
       /\ fig.artists[i + 1].y = fig.artists[i].y
    THEN fig.artists[i + 1].s
    ELSE "?"

\* <<label, x, row>> of the marker at index i, in the units of the source
MarkerAt(fig, i) == <<MarkerLabel(fig, i), fig.artists[i].x, fig.artists[i].y>>

IsKind(a, k) == a.kind = k

IsArrow(a) == IsKind(a, "arrow")
IsLine(a) == IsKind(a, "line")
IsSwatch(a) == IsKind(a, "circle") /\ a.r = 2

Arrows(fig) == SelectSeq(fig.artists, IsArrow)
BranchLines(fig) == SelectSeq(fig.artists, IsLine)
Swatches(fig) == SelectSeq(fig.artists, IsSwatch)

\* The multiset of markers of fig equals the multiset listed in expected
\* (entries <<label, x, row>> in source units)
SameMarkers(fig, expected) ==
    LET have == {<<i, MarkerAt(fig, i)>> : i \in MarkerIdx(fig)}
        want == {<<j, <<expected[j][1], 10 * expected[j][2], 10 * expected[j][3]>> >> :
                    j \in 1..Len(expected)}
    IN /\ Cardinality(have) = Cardinality(want)
       /\ \A w \in want :
             Cardinality({h \in have : h[2] = w[2]})
               = Cardinality({v \in want : v[2] = w[2]})

----------------------------------------------------------------------------
(* C1 *)

Scene1Markers ==
    << <<"A", 1, 3>>, <<"B", 2, 3>>, <<"C", 3, 3>>,
       <<"A", 1, 2>>,
       <<"A", 1, 1>>, <<"D", 2, 1>> >>

Scene2Markers == Scene1Markers \o << <<"B", 2, 2>>, <<"C", 3, 2>> >>

Scene3Markers == Scene2Markers \o << <<"M", 4, 1>> >>

SceneMarkers == <<Scene1Markers, Scene2Markers, Scene3Markers>>

\* C1: in each saved scene the multiset of commit markers (label, x, row) is
\* exactly the literal list of that scene: scene 1 A,B,C on origin/main (row 3)
\* at x=1,2,3, A on local/main (row 2) at x=1, A,D on testing (row 1) at x=1,2;
\* scene 2 adds B,C at x=2,3 on local/main; scene 3 adds M at x=4 on testing.
C1_SceneMarkers ==
    \A r \in Runs : \A k \in 1..3 :
        HasWritten(r, k) => LET fig == Saved(r, k) IN SameMarkers(fig, SceneMarkers[k])

\* A run has saved all three scenes, the third one with its nine markers
C1_Witness ==
    \E r \in Runs :
        /\ \A k \in 1..3 : HasWritten(r, k)
        /\ Cardinality(MarkerIdx(Saved(r, 3))) = 9

----------------------------------------------------------------------------
(* C2 *)

IsPrefix(s, t) == Len(s) <= Len(t) /\ \A i \in 1..Len(s) : s[i] = t[i]

\* C2: a run that completes has written exactly git_workflow_step1.png,
\* git_workflow_step2.png and git_workflow_step3.png, once each, and at no
\* point of any run has another file been written (the files written so far
\* are always a prefix of that list).
C2_ThreeFiles ==
    \A r \in Runs :
        /\ IsPrefix(WrittenNames(r), FileNames)
        /\ status[r] = "done" => WrittenNames(r) = FileNames

\* A run has completed
C2_Witness == \E r \in Runs : status[r] = "done" /\ Len(written[r]) = 3

----------------------------------------------------------------------------
(* C3 *)

\* The coordinates of the markers labelled M in a figure
MergeMarkers(fig) ==
    {<<fig.artists[i].x, fig.artists[i].y>> :
        i \in {j \in MarkerIdx(fig) : MarkerLabel(fig, j) = "M"}}

\* C3: the saved scene 3 holds exactly two arrows, both ending at the
\* coordinates of the merge-commit marker M (x=4, row of testing); the
\* canvases of scenes 1 and 2 never hold an arrow.
C3_MergeArrows ==
    \A r \in Runs :
        /\ \A k \in 1..Len(figs[r]) : k \in {1, 2} => Arrows(figs[r][k]) = << >>
        /\ HasWritten(r, 3) =>
              LET fig == Saved(r, 3)
                  arrows == Arrows(fig)
                  merge == MergeMarkers(fig)
              IN
              /\ Len(arrows) = 2
              /\ merge = {<<40, 10 * Lookup(BranchYPositionsInit, "testing")>>}
              /\ \A j \in 1..2 : <<arrows[j].x2, arrows[j].y2>> \in merge

\* Scene 3 has been saved with its arrows, after scenes 1 and 2
C3_Witness ==
    \E r \in Runs :
        /\ HasWritten(r, 3)
        /\ Len(Arrows(Saved(r, 3))) = 2
        /\ Len(figs[r]) = 3

----------------------------------------------------------------------------
(* C4 *)

PaletteOrder == <<"A", "B", "C", "D", "M">>

\* The texts of the legend strip: those on the swatch row and the caption row
IsLegendText(a) == IsKind(a, "text") /\ a.y \in {0, 3}

LegendTexts(fig) == SelectSeq(fig.artists, IsLegendText)

HasText(texts, x, y, s) ==
    \E i \in 1..Len(texts) : texts[i].x = x /\ texts[i].y = y /\ texts[i].s = s

\* C4: every figure, from the moment setup_plot returns it, holds exactly
\* five legend swatches, the i-th (from 0) at x = i + 0.7, y = 0.3, in the
\* order A, B, C, D, M, filled with that entry's palette colour, labelled
\* with the entry's letter and captioned "Commit <letter>".
C4_Legend ==
    \A r \in Runs : \A k \in 1..Len(figs[r]) :
        LET fig == figs[r][k]
            swatches == Swatches(fig)
            texts == LegendTexts(fig)
        IN
        /\ Len(swatches) = 5
        /\ Len(texts) = 10
        /\ \A i \in 0..4 :
              LET sw == swatches[i + 1] IN
              /\ sw.x = 10 * i + 7 /\ sw.y = 3
              /\ sw.color = Lookup(CommitColorsInit, PaletteOrder[i + 1])
              /\ HasText(texts, sw.x, 3, PaletteOrder[i + 1])
              /\ HasText(texts, sw.x, 0, "Commit " \o PaletteOrder[i + 1])

\* All three figures exist, each with its legend
C4_Witness ==
    \E r \in Runs : Len(figs[r]) = 3 /\ \A k \in 1..3 : Len(Swatches(figs[r][k])) = 5

----------------------------------------------------------------------------
(* C5 *)

\* The branch lines of a scene are drawn in the order origin/main,
\* local/main, testing; <<x_start, x_end, row>> of the j-th, in source units.
BranchOrder == <<"origin/main", "local/main", "testing">>

LineOf(fig, j) ==
    LET l == BranchLines(fig)[j] IN <<l.x1, l.x2, l.y1>>

\* Row of each branch in scenes 1, 2, 3 as the claim words it: origin/main 3
\* throughout, local/main going 2 -> 4, testing going 1 -> 3 -> 5.
ClaimedRows ==
    << <<3, 2, 1>>, <<3, 4, 3>>, <<3, 4, 5>> >>

\* C5 as stated: in each saved scene the row of every branch line is the
\* claimed one, local/main moving from row 2 to row 4 and testing from row 1
\* to 3 to 5.
C5_AsStated ==
    \A r \in Runs : \A k \in 1..3 :
        HasWritten(r, k) =>
            LET lines == BranchLines(Saved(r, k)) IN
            /\ Len(lines) = 3
            /\ \A j \in 1..3 : lines[j].y1 = 10 * ClaimedRows[k][j]

\* Right end of each branch line in scenes 1, 2, 3
LineEnds ==
    << <<5, 2, 3>>, <<5, 4, 3>>, <<5, 4, 5>> >>

\* C5 (amended): in each saved scene there are exactly three branch lines,
\* for origin/main, local/main and testing, each at the row the position
\* table gives its branch -- 3, 2 and 1 in all three scenes; what changes
\* from scene to scene is the right end of the line: origin/main 5, 5, 5,
\* local/main 2, 4, 4 and testing 3, 3, 5 (every line starts at x = 1).
C5_BranchRows ==
    \A r \in Runs : \A k \in 1..3 :
        HasWritten(r, k) =>
            LET lines == BranchLines(Saved(r, k)) IN
            /\ Len(lines) = 3
            /\ \A j \in 1..3 :
                  /\ <<lines[j].x1, lines[j].x2, lines[j].y1>> =
                        <<10, 10 * LineEnds[k][j],
                          10 * Lookup(branch_y_positions[r], BranchOrder[j])>>
                  /\ Lookup(branch_y_positions[r], BranchOrder[j]) = 4 - j
                  /\ lines[j].y2 = lines[j].y1

\* Scenes 2 and 3 are saved, with local/main still on row 2 and testing on row 1
C5_Witness ==
    \E r \in Runs :
        /\ HasWritten(r, 2) /\ HasWritten(r, 3)
        /\ LineOf(Saved(r, 2), 2) = <<10, 40, 20>>
        /\ LineOf(Saved(r, 3), 3) = <<10, 50, 10>>

----------------------------------------------------------------------------
(* C7 *)

C7_State ==
    \A r \in Runs :
        /\ commit_colors[r] = CommitColorsInit
        /\ branch_y_positions[r] = BranchYPositionsInit
        /\ \A k \in 1..Len(figs[r]) : \A i \in MarkerIdx(figs[r][k]) :
              figs[r][k].artists[i].color =
                  Lookup(CommitColorsInit, MarkerLabel(figs[r][k], i))

C7_Step ==
    \A r \in Runs :
        /\ Len(figs[r]) <= Len(figs'[r])
        /\ \A k \in 1..Len(figs[r]) :
              IsPrefix(figs[r][k].artists, figs'[r][k].artists)

\* C7: in every state the fill colour of every commit marker is the palette
\* entry of the marker's label, the palette and the branch-position table
\* hold their initial values, and no step changes or removes an element
\* already placed on a canvas (artists are only appended).
C7_ColourByLabel == [](C7_State) /\ [][C7_Step]_vars

\* The gold merge marker M is on the third canvas, next to markers of other labels
C7_Witness ==
    \E r \in Runs :
        /\ Len(figs[r]) = 3
        /\ \E i \in MarkerIdx(figs[r][3]) :
              MarkerLabel(figs[r][3], i) = "M" /\ figs[r][3].artists[i].color = "gold"

----------------------------------------------------------------------------
(* C8 *)

Titles ==
    << "Step 1: Initial State", "Step 2: After git pull origin main",
       "Step 3: After git merge main" >>

C8_State ==
    \A r \in Runs :
        /\ Len(figs[r]) <= 3
        /\ Len(written[r]) \in {Len(figs[r]) - 1, Len(figs[r])} \ {-1}
        /\ \A k \in 1..Len(figs[r]) : figs[r][k].title = Titles[k]
        /\ \A k \in 1..Len(written[r]) :
              /\ written[r][k].name = FileNames[k]
              /\ written[r][k].canvas = k
              /\ written[r][k].fig = figs[r][k]

C8_Step ==
    \A r \in Runs :
        /\ \A k \in 1..Len(figs[r]) :
              figs'[r][k] # figs[r][k] =>
                  /\ k = Len(figs[r])
                  /\ Len(written[r]) < k
                  /\ Len(figs'[r]) = Len(figs[r])
        /\ Len(figs'[r]) # Len(figs[r]) =>
              /\ Len(figs'[r]) = Len(figs[r]) + 1
              /\ Len(written[r]) = Len(figs[r])
              /\ figs'[r][Len(figs'[r])] =
                    setup_plot(Titles[Len(figs'[r])], BranchYPositionsInit,
                               CommitColorsInit)
        /\ Len(written'[r]) # Len(written[r]) =>
              /\ written'[r] = Append(written[r], written'[r][Len(written'[r])])
              /\ figs'[r] = figs[r]

\* C8: the three canvases are created, drawn into and written one after the
\* other, in the order scene 1, 2, 3: a step changes only the canvas created
\* last, and only while it is not yet written; a new canvas is created only
\* once the previous one is written, and starts from setup_plot's output for
\* its own title, whatever the earlier canvases hold; file k is the k-th
\* file written, holds canvas k, and canvas k never changes afterwards.
C8_Lifecycle == [](C8_State) /\ [][C8_Step]_vars

\* Scene 1 is written and unchanged while scene 2 is under construction
C8_Witness ==
    \E r \in Runs :
        /\ Len(figs[r]) = 2 /\ Len(written[r]) = 1
        /\ Len(BranchLines(figs[r][2])) = 3
        /\ written[r][1].fig = figs[r][1]

----------------------------------------------------------------------------
(* C9 *)

\* The scene whose savefig the run is at
SceneAtPc(r) ==
    IF pc[r] <= Len(Plot1) THEN 1
    ELSE IF pc[r] <= Len(Plot1) + Len(Plot2) THEN 2
    ELSE IF pc[r] <= Len(Plot1) + Len(Plot2) + Len(Plot3) THEN 3
    ELSE 4

C9_State ==
    \A r \in Runs :
        /\ status[r] = "fault" =>
              /\ SceneAtPc(r) <= 3
              /\ WrittenNames(r) = SubSeq(FileNames, 1, SceneAtPc(r) - 1)
              /\ Len(figs[r]) = SceneAtPc(r)
              /\ console[r] = << >>
        /\ console[r] # << >> => WrittenNames(r) = FileNames

C9_Step ==
    \A r \in Runs :
        status[r] = "fault" =>
            /\ status'[r] = "fault" /\ pc'[r] = pc[r]
            /\ figs'[r] = figs[r] /\ written'[r] = written[r]
            /\ console'[r] = console[r]

\* C9: when the write of git_workflow_step<k>.png fails the run stops
\* there for good: the files written are exactly those of scenes 1..k-1, no
\* canvas of a later scene exists, nothing is printed, and nothing of that
\* run changes afterwards; a confirmation line is printed only once all
\* three files are written.
C9_WriteFailure == [](C9_State) /\ [][C9_Step]_vars

\* A run has stopped at the failed write of scene 2, scene 1 being on disk
C9_Witness ==
    \E r \in Runs :
        /\ status[r] = "fault"
        /\ SceneAtPc(r) = 2
        /\ WrittenNames(r) = <<"git_workflow_step1.png">>

----------------------------------------------------------------------------
(* C10 *)

OnBranchLine(lines, x, y) ==
    \E j \in 1..Len(lines) : lines[j].y1 = y /\ lines[j].x1 <= x /\ x <= lines[j].x2

AtMarker(fig, idx, x, y) ==
    \E i \in idx : fig.artists[i].x = x /\ fig.artists[i].y = y

\* C10: on every canvas, in every state, each commit marker lies on a branch
\* line of the same canvas (same row, x_start <= x <= x_end), and both end
\* points of each arrow are the coordinates of a commit marker of the same
\* canvas.
C10_Anchored ==
    \A r \in Runs : \A k \in 1..Len(figs[r]) :
        LET fig == figs[r][k]
            idx == MarkerIdx(fig)
            lines == BranchLines(fig)
            arrows == Arrows(fig)
        IN
        /\ \A i \in idx : OnBranchLine(lines, fig.artists[i].x, fig.artists[i].y)
        /\ \A j \in 1..Len(arrows) :
              /\ AtMarker(fig, idx, arrows[j].x1, arrows[j].y1)
              /\ AtMarker(fig, idx, arrows[j].x2, arrows[j].y2)

\* The third canvas holds its nine markers and both arrows
C10_Witness ==
    \E r \in Runs :
        /\ Len(figs[r]) = 3
        /\ Len(Arrows(figs[r][3])) = 2
        /\ Cardinality(MarkerIdx(figs[r][3])) = 9

====
